---- MODULE Spec2Model ----
(***************************************************************************)
(* A model of wapitiCore/wappalyzer/wappalyzer.py: the signature database  *)
(* (ApplicationData), the detection engine, the version template           *)
(* interpreter and the implication resolver (Wappalyzer).                  *)
(*                                                                         *)
(* Strings are sequences of tokens.  A token is one character ("a", "x",   *)
(* "1", "?", ":" ...) or one of the character groups the code treats as a  *)
(* unit: the separator "\;" of a pattern source string, a back reference   *)
(* "\1" / "\2" of a version template, the regex atoms "(\d)" and "(\d?)",  *)
(* and the parameter name "version".  The empty string is << >>.           *)
(***************************************************************************)
EXTENDS Naturals, Integers, Sequences, FiniteSets, TLC

VARIABLES
    applications,   \* ApplicationData.applications, shared with every Wappalyzer
    categories,     \* ApplicationData.categories
    web_content,    \* Wappalyzer.web_content of the current session
    session,        \* number of Wappalyzer objects built on the database so far
    result,         \* what the last engine call returned or raised
    first_versions, \* history: versions of every application when the current session began
    rec,            \* get_rec_implied_applications, one loop round per step
    vt,             \* update_version_detected's inner loop, one group index per step
    acc             \* one application's versions over a sequence of update_version_detected calls

vars == <<applications, categories, web_content, session, result, first_versions, rec, vt, acc>>

-----------------------------------------------------------------------------
(* Bounds *)

\* Wappalyzer objects built one after the other on one ApplicationData
MaxSessions == 2
\* `implies` targets per application in the resolver's databases
MaxImplies == 2
\* tokens of a version template
MaxTemplate == 5
\* update_version_detected calls on one application
MaxCalls == 2
\* characters of a matched content
MaxContent == 3

-----------------------------------------------------------------------------
(* Strings *)

Sep == "\\;"
Digits == {"1", "2"}

\* str.lower() of one token
LowerTok(t) == IF t = "X" THEN "x" ELSE IF t = "A" THEN "a" ELSE t

Lower(s) == [i \in 1..Len(s) |-> LowerTok(s[i])]

\* iterating a str yields its characters, each a str of length one
Chars(s) == [i \in 1..Len(s) |-> <<s[i]>>]

StartsAt(s, p, t) ==
    /\ p + Len(t) - 1 <= Len(s)
    /\ \A j \in 1..Len(t) : s[p + j - 1] = t[j]

\* str.replace(old, new) for a non-empty old: every non-overlapping occurrence, left to right
RECURSIVE ReplaceFrom(_, _, _, _)
ReplaceFrom(s, p, old, new) ==
    IF p > Len(s) THEN << >>
    ELSE IF StartsAt(s, p, old) THEN new \o ReplaceFrom(s, p + Len(old), old, new)
    ELSE <<s[p]>> \o ReplaceFrom(s, p + 1, old, new)

Replace(s, old, new) == ReplaceFrom(s, 1, old, new)

\* str.split(sep) for a one-token separator: the list of segments
RECURSIVE SplitFrom(_, _, _, _)
SplitFrom(s, p, sep, cur) ==
    IF p > Len(s) THEN <<cur>>
    ELSE IF s[p] = sep THEN <<cur>> \o SplitFrom(s, p + 1, sep, << >>)
    ELSE SplitFrom(s, p + 1, sep, Append(cur, s[p]))

Split(s, sep) == SplitFrom(s, 1, sep, << >>)

\* sep.join(parts)
RECURSIVE Join(_, _)
Join(parts, sep) ==
    IF Len(parts) = 0 THEN << >>
    ELSE IF Len(parts) = 1 THEN parts[1]
    ELSE parts[1] \o <<sep>> \o Join(Tail(parts), sep)

-----------------------------------------------------------------------------
(* Regular expressions: the part of Python's re the rule database uses here. *)
(* A compiled regex is its sequence of atoms: a literal character, "(\d)"   *)
(* (a group of one digit) or "(\d?)" (a group of an optional digit,        *)
(* greedy).                                                                *)

GroupOne == "(\\d)"
GroupOpt == "(\\d?)"
\* re.compile(r'(?!x)x'): the regex that never matches
NeverMatches == <<"(?!x)x">>

IsGroup(atom) == atom \in {GroupOne, GroupOpt}

NumGroups(regex) == Cardinality({k \in 1..Len(regex) : IsGroup(regex[k])})

\* re.compile raises re.error on an unbalanced parenthesis
Compiles(expression) == \A k \in 1..Len(expression) : expression[k] \notin {"(", ")"}

NoMatch == [ok |-> FALSE, end |-> 0, groups |-> << >>]

\* the match of regex[k..] at position p of content with the highest priority
\* (a greedy group takes its digit first and gives it back when the rest fails)
RECURSIVE MatchAt(_, _, _, _)
MatchAt(regex, k, content, p) ==
    IF k > Len(regex) THEN [ok |-> TRUE, end |-> p, groups |-> << >>]
    ELSE LET atom == regex[k]
             has == p <= Len(content)
             take == IF has /\ content[p] \in Digits
                     THEN MatchAt(regex, k + 1, content, p + 1)
                     ELSE NoMatch
         IN  IF atom = GroupOne
             THEN IF take.ok THEN [take EXCEPT !.groups = <<<<content[p]>>>> \o @]
                  ELSE NoMatch
             ELSE IF atom = GroupOpt
             THEN IF take.ok THEN [take EXCEPT !.groups = <<<<content[p]>>>> \o @]
                  ELSE LET skip == MatchAt(regex, k + 1, content, p)
                       IN  IF skip.ok THEN [skip EXCEPT !.groups = <<<< >>>> \o @]
                           ELSE NoMatch
             ELSE IF has /\ content[p] = atom
             THEN MatchAt(regex, k + 1, content, p + 1)
             ELSE NoMatch

\* the leftmost position >= p where regex matches, or 0
RECURSIVE FirstMatchPos(_, _, _)
FirstMatchPos(regex, content, p) ==
    IF p > Len(content) + 1 THEN 0
    ELSE IF MatchAt(regex, 1, content, p).ok THEN p
    ELSE FirstMatchPos(regex, content, p + 1)

\* re.search(regex, content) is not None
re_search(regex, content) == FirstMatchPos(regex, content, 1) # 0

\* re.findall(regex, content): one entry per non-overlapping occurrence; the
\* whole match (a str) without groups, the group (a str) with one group, the
\* tuple of groups otherwise.  is_str tells a str from a tuple.
RECURSIVE FindAllFrom(_, _, _)
FindAllFrom(regex, content, p) ==
    LET q == FirstMatchPos(regex, content, p)
    IN  IF q = 0 THEN << >>
        ELSE LET m == MatchAt(regex, 1, content, q)
                 n == NumGroups(regex)
                 occurrence ==
                     IF n = 0 THEN [is_str |-> TRUE, value |-> SubSeq(content, q, m.end - 1)]
                     ELSE IF n = 1 THEN [is_str |-> TRUE, value |-> m.groups[1]]
                     ELSE [is_str |-> FALSE, value |-> m.groups]
             IN  <<occurrence>> \o
                 FindAllFrom(regex, content, IF m.end = q THEN q + 1 ELSE m.end)

re_findall(regex, content) == FindAllFrom(regex, content, 1)

-----------------------------------------------------------------------------
(* ApplicationData: the signature database *)

ListFields == {"cats", "html", "implies", "script"}
DictFields == {"meta", "js", "cookies", "headers"}
StringFields == {"url", "icon", "website", "cpe"}

Version == <<"version">>

\* ApplicationData.normalize_regex: the source string "<regex>[\;key:value]..."
\* becomes application_pattern, the compiled regex and the named parameters
RECURSIVE RegexParams(_, _)
RegexParams(segments, i) ==
    IF i > Len(segments) THEN << >>
    ELSE LET splitted_param_pattern == Split(segments[i], ":")
             rest == RegexParams(segments, i + 1)
         IN  IF Len(splitted_param_pattern) > 1 /\ splitted_param_pattern[1] \notin DOMAIN rest
             THEN (splitted_param_pattern[1] :> Join(Tail(splitted_param_pattern), ":")) @@ rest
             ELSE rest

normalize_regex(pattern) ==
    LET segments == Split(pattern, Sep)
        expression == segments[1]
    IN  [application_pattern |-> expression,
         regex |-> IF Compiles(expression) THEN expression ELSE NeverMatches,
         params |-> RegexParams(segments, 2)]

\* ApplicationData.normalize_applications, for one raw rule: a missing list
\* field is [], a missing dict field is {} and its keys are lower-cased, a
\* missing string field is "".  A dict is the sequence of its (key, value)
\* items in insertion order.
normalize_application_fields(raw) ==
    [f \in ListFields \cup DictFields \cup StringFields |->
        IF f \notin DOMAIN raw THEN << >>
        ELSE IF f \in DictFields
        THEN [i \in 1..Len(raw[f]) |-> <<Lower(raw[f][i][1]), raw[f][i][2]>>]
        ELSE raw[f]]

\* ApplicationData.normalize_application_regex, for one rule.  An url that is
\* not '' becomes its Pattern, held here as a sequence of length one so that
\* it compares with the empty string.
normalize_application_regex_fields(app) ==
    [f \in DOMAIN app |->
        IF f \in {"html", "implies", "script"}
        THEN [i \in 1..Len(app[f]) |-> normalize_regex(app[f][i])]
        ELSE IF f \in {"meta", "cookies", "headers"}
        THEN [i \in 1..Len(app[f]) |->
                LET key == app[f][i][1]
                    pattern == IF app[f][i][2] = << >> THEN key ELSE app[f][i][2]
                IN  <<key, normalize_regex(pattern)>>]
        ELSE IF f = "url"
        THEN IF app[f] # << >> THEN <<normalize_regex(app[f])>> ELSE << >>
        ELSE app[f]]

\* ApplicationData.__init__: obj["apps"] after both passes
LoadApplications(raw_apps) ==
    [n \in DOMAIN raw_apps |->
        normalize_application_regex_fields(normalize_application_fields(raw_apps[n]))]

-----------------------------------------------------------------------------
(* Wappalyzer: version template interpreter *)

BackRef(n) == IF n = 1 THEN <<"\\1">> ELSE IF n = 2 THEN <<"\\2">> ELSE <<"\\3">>

\* the first ":" of s at or after p, or 0
RECURSIVE FirstColon(_, _)
FirstColon(s, p) ==
    IF p > Len(s) THEN 0 ELSE IF s[p] = ":" THEN p ELSE FirstColon(s, p + 1)

\* whether '\\N\?([^:]+):(.*)$' matches at position p
TernaryAt(version_pattern, n, p) ==
    /\ StartsAt(version_pattern, p, BackRef(n) \o <<"?">>)
    /\ FirstColon(version_pattern, p + 2) >= p + 3

\* re.search('\\N\?([^:]+):(.*)$', version_pattern): the leftmost match
TernarySearch(version_pattern, n) ==
    LET hits == {p \in 1..Len(version_pattern) : TernaryAt(version_pattern, n, p)}
    IN  IF hits = {} THEN [found |-> FALSE]
        ELSE LET p == CHOOSE h \in hits : \A g \in hits : h <= g
                 c == FirstColon(version_pattern, p + 2)
             IN  [found |-> TRUE,
                  group0 |-> SubSeq(version_pattern, p, Len(version_pattern)),
                  group1 |-> SubSeq(version_pattern, p + 2, c - 1),
                  group2 |-> SubSeq(version_pattern, c + 1, Len(version_pattern))]

\* the ternary of group index n, when there is one
ResolveTernary(version_pattern, n, match) ==
    LET ternary == TernarySearch(version_pattern, n)
    IN  IF ternary.found
        THEN Replace(version_pattern, ternary.group0,
                     IF match # << >> THEN ternary.group1 ELSE ternary.group2)
        ELSE version_pattern

\* the back references of group index n
ReplaceBackReferences(version_pattern, n, match) == Replace(version_pattern, BackRef(n), match)

\* a round that replaces the back references before it looks for the ternary
VersionStep_BackReferencesFirst(version_pattern, n, match) ==
    ResolveTernary(ReplaceBackReferences(version_pattern, n, match), n, match)

\* one round of "for i, match in enumerate(occurrence)", n = i + 1
VersionStep(version_pattern, n, match) ==
    ReplaceBackReferences(ResolveTernary(version_pattern, n, match), n, match)

RECURSIVE ResolveFrom(_, _, _)
ResolveFrom(version_pattern, groups, n) ==
    IF n > Len(groups) THEN version_pattern
    ELSE ResolveFrom(VersionStep(version_pattern, n, groups[n]), groups, n + 1)

\* "if isinstance(occurrence, str): occurrence = [occurrence]"
GroupsOf(occurrence) == IF occurrence.is_str THEN <<occurrence.value>> ELSE occurrence.value

ResolveVersion(template, occurrence) == ResolveFrom(template, GroupsOf(occurrence), 1)

HasVersions(application) == "versions" \in DOMAIN application

\* a recorder without the "not in" test
AddVersion_Repeats(application, version_pattern) ==
    IF version_pattern # << >>
    THEN IF ~HasVersions(application)
         THEN ("versions" :> <<version_pattern>>) @@ application
         ELSE [application EXCEPT !["versions"] = Append(@, version_pattern)]
    ELSE application

\* "if version_pattern != ''": record it unless it is already there
AddVersion(application, version_pattern) ==
    IF version_pattern # << >>
    THEN IF ~HasVersions(application)
         THEN ("versions" :> <<version_pattern>>) @@ application
         ELSE IF \A k \in 1..Len(application["versions"]) :
                     application["versions"][k] # version_pattern
         THEN [application EXCEPT !["versions"] = Append(@, version_pattern)]
         ELSE application
    ELSE application

RECURSIVE AddOccurrences(_, _, _, _)
AddOccurrences(application, template, found_occurrences, k) ==
    IF k > Len(found_occurrences) THEN application
    ELSE AddOccurrences(AddVersion(application, ResolveVersion(template, found_occurrences[k])),
                        template, found_occurrences, k + 1)

\* Wappalyzer.update_version_detected
update_version_detected(application, regex_params, content) ==
    IF Version \in DOMAIN regex_params.params
    THEN AddOccurrences(application, regex_params.params[Version],
                        re_findall(regex_params.regex, content), 1)
    ELSE application

-----------------------------------------------------------------------------
(* Wappalyzer: detection engine *)

\* Wappalyzer.is_application_detected_normalize_string
is_application_detected_normalize_string(application, content_type, contents) ==
    IF application[content_type] # << >>
          /\ re_search(application[content_type][1].regex, contents)
    THEN [is_detected |-> TRUE,
          application |-> update_version_detected(application, application[content_type][1], contents)]
    ELSE [is_detected |-> FALSE, application |-> application]

\* the two nested loops of is_application_detected_normalize_list, flattened:
\* round k is pattern (k - 1) \div n + 1 against content (k - 1) % n + 1
RECURSIVE ListLoop(_, _, _, _)
ListLoop(state, content_type, contents, k) ==
    LET n == Len(contents)
        application == state.application
    IN  IF k > Len(application[content_type]) * n THEN state
        ELSE LET regex_params == application[content_type][((k - 1) \div n) + 1]
                 content == contents[((k - 1) % n) + 1]
             IN  ListLoop(IF re_search(regex_params.regex, content)
                          THEN [is_detected |-> TRUE,
                                application |-> update_version_detected(application, regex_params, content)]
                          ELSE state,
                          content_type, contents, k + 1)

\* Wappalyzer.is_application_detected_normalize_list: contents is what
\* "for content in contents" yields
is_application_detected_normalize_list(application, content_type, contents) ==
    ListLoop([is_detected |-> FALSE, application |-> application], content_type, contents, 1)

RECURSIVE DictLoop(_, _, _, _)
DictLoop(state, content_type, contents, k) ==
    LET application == state.application
    IN  IF k > Len(application[content_type]) THEN state
        ELSE LET key == application[content_type][k][1]
                 regex_params == application[content_type][k][2]
             IN  DictLoop(IF key \in DOMAIN contents /\ re_search(regex_params.regex, contents[key])
                          THEN [is_detected |-> TRUE,
                                application |-> update_version_detected(application, regex_params, contents[key])]
                          ELSE state,
                          content_type, contents, k + 1)

\* Wappalyzer.is_application_detected_normalize_dict
is_application_detected_normalize_dict(application, content_type, contents) ==
    DictLoop([is_detected |-> FALSE, application |-> application], content_type, contents, 1)

\* "a or b": b is evaluated only when a is false
OrElse(a, b) == IF a.is_detected THEN a ELSE b

\* Wappalyzer.is_application_detected: the six checks joined by "or".  The
\* html body is a str, so the list check iterates its characters.
is_application_detected(application, wc) ==
    LET url == is_application_detected_normalize_string(application, "url", wc.url)
        html == is_application_detected_normalize_list(application, "html", Chars(wc.html))
        script == is_application_detected_normalize_list(application, "script", wc.scripts)
        cookies == is_application_detected_normalize_dict(application, "cookies", wc.cookies)
        headers == is_application_detected_normalize_dict(application, "headers", wc.headers)
        meta == is_application_detected_normalize_dict(application, "meta", wc.meta_data)
    IN  OrElse(url, OrElse(html, OrElse(script, OrElse(cookies, OrElse(headers, meta)))))

-----------------------------------------------------------------------------
(* Wappalyzer: implication resolver and result projector *)

Returned(v) == [raised |-> "", value |-> v]
Raised(e) == [raised |-> e, value |-> {}]

\* Wappalyzer.get_implied_applications: self.applications[application_name]
\* raises KeyError for a name that is no key of the database
get_implied_applications(apps, names) ==
    IF \E n \in names : n \notin DOMAIN apps THEN Raised("KeyError")
    ELSE Returned(UNION {{apps[n]["implies"][k].application_pattern :
                             k \in 1..Len(apps[n]["implies"])} : n \in names})

\* a resolver that starts its accumulated set from the detected applications
RecStart_FromDetected(apps, detected_applications) ==
    [raised |-> get_implied_applications(apps, detected_applications).raised,
     init_implied_applications |-> get_implied_applications(apps, detected_applications).value,
     final_implied_applications |-> detected_applications]

\* get_rec_implied_applications up to its loop: the first get_implied_applications
\* and the empty accumulated set
RecStart(apps, detected_applications) ==
    [raised |-> get_implied_applications(apps, detected_applications).raised,
     init_implied_applications |-> get_implied_applications(apps, detected_applications).value,
     final_implied_applications |-> {}]

\* "while not final_implied_applications.issuperset(init_implied_applications)"
RecContinues(st) == ~(st.init_implied_applications \subseteq st.final_implied_applications)

\* a loop body that does not update the accumulated set
RecUpdate_Skipped(final_implied_applications, init_implied_applications) ==
    final_implied_applications

\* final_implied_applications.update(init_implied_applications)
RecUpdate(final_implied_applications, init_implied_applications) ==
    final_implied_applications \cup init_implied_applications

RecNext(apps, updated) ==
    [raised |-> get_implied_applications(apps, updated).raised,
     init_implied_applications |-> get_implied_applications(apps, updated).value,
     final_implied_applications |-> updated]

\* one round of the loop
RecRound(apps, st) ==
    RecNext(apps, RecUpdate(st.final_implied_applications, st.init_implied_applications))

RECURSIVE RecLoop(_, _)
RecLoop(apps, st) ==
    IF st.raised # "" THEN Raised(st.raised)
    ELSE IF RecContinues(st) THEN RecLoop(apps, RecRound(apps, st))
    ELSE Returned(st.final_implied_applications)

\* Wappalyzer.get_rec_implied_applications
get_rec_implied_applications(apps, detected_applications) ==
    RecLoop(apps, RecStart(apps, detected_applications))

\* str(category_number)
Str(n) == IF n = 1 THEN <<"1">> ELSE IF n = 2 THEN <<"2">> ELSE <<"9">>

\* Wappalyzer.get_categories: self.categories.get(str(n), "") is the str ""
\* for an id without an entry, and "".get raises AttributeError
get_categories(apps, cats, application_name) ==
    LET category_numbers == IF application_name \in DOMAIN apps
                            THEN apps[application_name]["cats"] ELSE << >>
    IN  IF \E k \in 1..Len(category_numbers) : Str(category_numbers[k]) \notin DOMAIN cats
        THEN Raised("AttributeError")
        ELSE Returned([k \in 1..Len(category_numbers) |-> cats[Str(category_numbers[k])].name])

\* Wappalyzer.get_versions: self.applications[application_name] raises
\* KeyError for a name that is no key of the database
get_versions(apps, application_name) ==
    IF application_name \notin DOMAIN apps THEN Raised("KeyError")
    ELSE Returned(IF ~HasVersions(apps[application_name]) THEN << >>
                  ELSE apps[application_name]["versions"])

\* the first loop of detect: every application is tested, and its entry of
\* the database is the one update_version_detected wrote to
DetectEach(apps, wc) == [n \in DOMAIN apps |-> is_application_detected(apps[n], wc)]

\* "detected_applications |= self.get_rec_implied_applications(detected_applications)"
AddImplied(apps, detected_applications, implied) ==
    [raised |-> implied.raised, apps |-> apps,
     value |-> IF implied.raised # "" THEN {} ELSE detected_applications \cup implied.value]

DetectedIn(each) == {n \in DOMAIN each : each[n].is_detected}

AfterDetection(each) == [n \in DOMAIN each |-> each[n].application]

DetectFrom(apps, detected_applications) ==
    AddImplied(apps, detected_applications,
               get_rec_implied_applications(apps, detected_applications))

\* Wappalyzer.detect: apps is the database after the call
DetectOf(each) == DetectFrom(AfterDetection(each), DetectedIn(each))

detect(apps0, wc) == DetectOf(DetectEach(apps0, wc))

\* the loop of detect_with_versions over the detected names
WithVersions(detected_applications) ==
    IF detected_applications.raised # "" THEN detected_applications
    ELSE IF \E n \in detected_applications.value :
                get_versions(detected_applications.apps, n).raised # ""
    THEN [detected_applications EXCEPT !.raised = "KeyError", !.value = {}]
    ELSE [detected_applications EXCEPT
             !.value = [n \in detected_applications.value |->
                           [versions |-> get_versions(detected_applications.apps, n).value]]]

\* Wappalyzer.detect_with_versions
detect_with_versions(apps0, wc) == WithVersions(detect(apps0, wc))

\* the loop of detect_with_versions_and_categories over the reported names
WithCategories(versioned_applications, cats) ==
    IF versioned_applications.raised # "" THEN versioned_applications
    ELSE IF \E n \in DOMAIN versioned_applications.value :
                get_categories(versioned_applications.apps, cats, n).raised # ""
    THEN [versioned_applications EXCEPT !.raised = "AttributeError", !.value = {}]
    ELSE [versioned_applications EXCEPT
             !.value = [n \in DOMAIN versioned_applications.value |->
                           [versions |-> versioned_applications.value[n].versions,
                            categories |-> get_categories(versioned_applications.apps, cats, n).value]]]

\* Wappalyzer.detect_with_versions_and_categories
detect_with_versions_and_categories(apps0, cats, wc) ==
    WithCategories(detect_with_versions(apps0, wc), cats)

-----------------------------------------------------------------------------
(* Inputs of the detection sessions: rule databases and page snapshots *)

NameA == <<"A">>
NameB == <<"B">>
NameC == <<"C">>
\* a name no database has an entry for
NameZ == <<"Z">>

KeyX == <<"x">>

VersionOne == <<Sep, "version", ":", "\\1">>

\* one field of a raw rule, as apps.json gives it
RuleOptions ==
    << [field |-> "website", value |-> <<"w">>],
      [field |-> "url", value |-> <<"a", GroupOne>> \o VersionOne],
      [field |-> "html", value |-> << <<"a", GroupOne>> \o VersionOne >>],
      [field |-> "html", value |-> << <<"a", GroupOpt, Sep, "version", ":", "\\1", "?", "P", ":", "F">> >>],
      [field |-> "script", value |-> << <<"x", GroupOne>> \o VersionOne >>],
      [field |-> "cookies", value |-> << <<KeyX, << >> >> >>],
      [field |-> "cookies", value |-> << <<KeyX, <<GroupOne>> \o VersionOne>> >>],
      [field |-> "headers", value |-> << << <<"X">>, <<"a", GroupOne>> \o VersionOne>> >>],
      [field |-> "meta", value |-> << <<KeyX, <<GroupOne, GroupOpt, Sep, "version", ":", "\\2", "?", "\\2", ":", "\\1">> >> >>],
      [field |-> "implies", value |-> << <<"B">> >>],
      [field |-> "implies", value |-> << <<"Z", Sep, "c", ":", "5">> >>],
      [field |-> "cats", value |-> <<1>>],
      [field |-> "cats", value |-> <<1, 9>>] >>

\* the raw rule made of two options (of one, when they are the same)
RawRule(o1, o2) ==
    [f \in {o1.field, o2.field} |-> IF f = o1.field THEN o1.value ELSE o2.value]

RawRulesA ==
    {RawRule(RuleOptions[i], RuleOptions[j]) : i \in 1..Len(RuleOptions), j \in 1..Len(RuleOptions)}

RawRuleB == [html |-> << <<"x">> >>, cats |-> <<2>>]

RawDatabases == {(NameA :> a) @@ (NameB :> RawRuleB) : a \in RawRulesA}

\* obj["categories"]
CategoryTable == (<<"1">> :> [name |-> <<"c", "m", "s">>]) @@ (<<"2">> :> [name |-> <<"j", "s">>])

\* a page without anything to match
BlankPage ==
    [url |-> <<"x">>, html |-> << >>, scripts |-> << >>,
     cookies |-> << >>, headers |-> << >>, meta_data |-> << >>]

\* one field of a page.  headers is requests' case-insensitive mapping, held
\* under its lower-cased keys, which is how it looks a key up.
PageOptions ==
    << [field |-> "url", value |-> <<"x">>],
      [field |-> "url", value |-> <<"a", "1">>],
      [field |-> "url", value |-> <<"a", "2">>],
      [field |-> "html", value |-> <<"a", "1">>],
      [field |-> "html", value |-> <<"x", "a">>],
      [field |-> "scripts", value |-> << <<"x", "1">> >>],
      [field |-> "scripts", value |-> << <<"a">>, <<"x", "2">>, <<"x", "1">> >>],
      [field |-> "cookies", value |-> (KeyX :> <<"x", "1">>)],
      [field |-> "cookies", value |-> (KeyX :> <<"2">>)],
      [field |-> "headers", value |-> (KeyX :> <<"a", "2">>)],
      [field |-> "meta_data", value |-> (KeyX :> <<"1", "2">>)],
      [field |-> "meta_data", value |-> (KeyX :> <<"1">>)] >>

Page(o1, o2) ==
    [f \in DOMAIN BlankPage |->
        IF f = o1.field THEN o1.value ELSE IF f = o2.field THEN o2.value ELSE BlankPage[f]]

Snapshots ==
    {Page(PageOptions[i], PageOptions[j]) : i \in 1..Len(PageOptions), j \in 1..Len(PageOptions)}

-----------------------------------------------------------------------------
(* Detection sessions on one ApplicationData *)

NoResult == [call |-> "none", raised |-> "", value |-> {}]

VersionsOf(apps) ==
    [n \in DOMAIN apps |-> IF HasVersions(apps[n]) THEN apps[n]["versions"] ELSE << >>]

\* get_rec_implied_applications and update_version_detected are not stepped here
RecIdle == [pc |-> "idle"]
VtIdle == [pc |-> "idle"]
AccIdle == [pc |-> "idle"]

\* a constructor that hands the engine a database without recorded versions
Wappalyzer_init_Reset(apps) ==
    [n \in DOMAIN apps |-> [f \in DOMAIN apps[n] \ {"versions"} |-> apps[n][f]]]

\* Wappalyzer.__init__: the engine takes the database's own applications
Wappalyzer_init(apps) == apps

Init ==
    /\ applications \in {LoadApplications(raw) : raw \in RawDatabases}
    /\ categories = CategoryTable
    /\ web_content \in Snapshots
    /\ session = 1
    /\ result = NoResult
    /\ first_versions = VersionsOf(applications)
    /\ rec = RecIdle
    /\ vt = VtIdle
    /\ acc = AccIdle

\* a new Wappalyzer on the same ApplicationData and another page
NewSession ==
    /\ session < MaxSessions
    /\ \E wc \in Snapshots : web_content' = wc
    /\ applications' = Wappalyzer_init(applications)
    /\ first_versions' = VersionsOf(applications)
    /\ session' = session + 1
    /\ result' = NoResult
    /\ UNCHANGED <<categories, rec, vt, acc>>

Call(name, r) ==
    /\ applications' = r.apps
    /\ result' = [call |-> name, raised |-> r.raised, value |-> r.value]
    /\ UNCHANGED <<categories, web_content, session, first_versions, rec, vt, acc>>

Detect == Call("detect", detect(applications, web_content))

DetectWithVersions == Call("versions", detect_with_versions(applications, web_content))

DetectWithVersionsAndCategories ==
    Call("categories", detect_with_versions_and_categories(applications, categories, web_content))

Next == NewSession \/ Detect \/ DetectWithVersions \/ DetectWithVersionsAndCategories

Spec == Init /\ [][Next]_vars

-----------------------------------------------------------------------------
(* get_rec_implied_applications, one loop round per step *)

PresentNames == {NameA, NameB, NameC}
NameOrder == <<NameA, NameB, NameC, NameZ>>
AllNames == {NameOrder[i] : i \in 1..Len(NameOrder)}

\* the raw `implies` list naming the members of S
RECURSIVE ImpliesList(_, _)
ImpliesList(S, i) ==
    IF i > Len(NameOrder) THEN << >>
    ELSE (IF NameOrder[i] \in S
          THEN <<IF NameOrder[i] = NameC THEN NameC \o <<Sep, "c", ":", "5">> ELSE NameOrder[i]>>
          ELSE << >>) \o ImpliesList(S, i + 1)

ImpliesChoices == {S \in SUBSET AllNames : Cardinality(S) <= MaxImplies}

ImpliesDatabases ==
    {[n \in PresentNames |-> [implies |-> ImpliesList(g[n], 1)]] : g \in [PresentNames -> ImpliesChoices]}

InitImplied ==
    /\ applications \in {LoadApplications(raw) : raw \in ImpliesDatabases}
    /\ categories = CategoryTable
    /\ web_content = BlankPage
    /\ session = 1
    /\ result = NoResult
    /\ first_versions = VersionsOf(applications)
    /\ rec \in {[pc |-> "call", detected_applications |-> D, st |-> RecStart(applications, {}),
                 rounds |-> 0, returned |-> {}, detect_result |-> {}] : D \in SUBSET AllNames}
    /\ vt = VtIdle
    /\ acc = AccIdle

ImpliedFrame == UNCHANGED <<applications, categories, web_content, session, result, first_versions, vt, acc>>

\* lines 325-326
RecEnter ==
    /\ rec.pc = "call"
    /\ rec' = [rec EXCEPT !.st = RecStart(applications, rec.detected_applications),
                          !.pc = IF RecStart(applications, rec.detected_applications).raised # ""
                                 THEN "raised" ELSE "while"]
    /\ ImpliedFrame

\* lines 328-330: the loop test holds and the body runs
RecBody ==
    /\ rec.pc = "while"
    /\ RecContinues(rec.st)
    /\ rec' = [rec EXCEPT !.st = RecRound(applications, rec.st),
                          !.rounds = @ + 1,
                          !.pc = IF RecRound(applications, rec.st).raised # ""
                                 THEN "raised" ELSE "while"]
    /\ ImpliedFrame

\* line 332: the loop test fails
RecReturn ==
    /\ rec.pc = "while"
    /\ ~RecContinues(rec.st)
    /\ rec' = [rec EXCEPT !.pc = "returned", !.returned = rec.st.final_implied_applications]
    /\ ImpliedFrame

\* detect, lines 374-376, for the directly detected set detected_applications
DetectUnion ==
    /\ rec.pc = "returned"
    /\ rec' = [rec EXCEPT !.pc = "detected",
                          !.detect_result = AddImplied(applications, rec.detected_applications,
                                                       Returned(rec.returned)).value]
    /\ ImpliedFrame

NextImplied == RecEnter \/ RecBody \/ RecReturn \/ DetectUnion

SpecImplied == InitImplied /\ [][NextImplied]_vars /\ WF_vars(NextImplied)

-----------------------------------------------------------------------------
(* update_version_detected's loop over the groups of one occurrence, one *)
(* group index per step                                                  *)

TemplateTokens == {"\\1", "\\2", "?", ":", "P", "F"}

Templates == UNION {[1..k -> TemplateTokens] : k \in 0..MaxTemplate}

\* what re.findall gives for one occurrence: a str, or a tuple of two groups
Occurrences ==
    {[is_str |-> TRUE, value |-> g] : g \in {<< >>, <<"7">>}} \cup
    {[is_str |-> FALSE, value |-> <<g, <<"8">>>>] : g \in {<< >>, <<"7">>}}

InitTemplate ==
    /\ applications = << >>
    /\ categories = CategoryTable
    /\ web_content = BlankPage
    /\ session = 1
    /\ result = NoResult
    /\ first_versions = << >>
    /\ rec = RecIdle
    /\ vt \in {[pc |-> "loop", template |-> t, version_pattern |-> t, groups |-> GroupsOf(o),
                n |-> 1, before |-> t] : t \in Templates, o \in Occurrences}
    /\ acc = AccIdle

TemplateFrame == UNCHANGED <<applications, categories, web_content, session, result, first_versions, rec, acc>>

\* lines 303-313 for i = n - 1
TemplateRound ==
    /\ vt.pc = "loop"
    /\ vt.n <= Len(vt.groups)
    /\ vt' = [vt EXCEPT !.version_pattern = VersionStep(vt.version_pattern, vt.n, vt.groups[vt.n]),
                        !.before = vt.version_pattern,
                        !.n = @ + 1]
    /\ TemplateFrame

\* the loop is over: version_pattern is the resolved template
TemplateDone ==
    /\ vt.pc = "loop"
    /\ vt.n > Len(vt.groups)
    /\ vt' = [vt EXCEPT !.pc = "done"]
    /\ TemplateFrame

NextTemplate == TemplateRound \/ TemplateDone

SpecTemplate == InitTemplate /\ [][NextTemplate]_vars

-----------------------------------------------------------------------------
(* One application's versions over a sequence of update_version_detected calls *)

ContentTokens == {"a", "x", "1", "2"}

Contents == UNION {[1..k -> ContentTokens] : k \in 0..MaxContent}

\* the Patterns the calls are made with
PatternPool ==
    { normalize_regex(<<"a", GroupOpt, Sep, "version", ":", "\\1", "?", "P", ":", "F">>),
      normalize_regex(<<"x", GroupOne>> \o VersionOne),
      normalize_regex(<<GroupOne, GroupOpt, Sep, "version", ":", "\\2">>),
      normalize_regex(<<"a">>) }

BlankApplication == LoadApplications((NameA :> [website |-> <<"w">>]))[NameA]

\* history: the resolved template of every occurrence of a call, in the code's order
ResolvedBy(regex_params, content) ==
    IF Version \in DOMAIN regex_params.params
    THEN [k \in 1..Len(re_findall(regex_params.regex, content)) |->
             ResolveVersion(regex_params.params[Version], re_findall(regex_params.regex, content)[k])]
    ELSE << >>

InitVersions ==
    /\ applications = << >>
    /\ categories = CategoryTable
    /\ web_content = BlankPage
    /\ session = 1
    /\ result = NoResult
    /\ first_versions = << >>
    /\ rec = RecIdle
    /\ vt = VtIdle
    /\ acc = [pc |-> "run", application |-> BlankApplication, log |-> << >>, calls |-> 0]

\* Wappalyzer.update_version_detected on a content the Pattern matches
UpdateVersionDetected ==
    /\ acc.calls < MaxCalls
    /\ \E regex_params \in PatternPool, content \in Contents :
          /\ re_search(regex_params.regex, content)
          /\ acc' = [acc EXCEPT !.application = update_version_detected(@, regex_params, content),
                                !.log = @ \o ResolvedBy(regex_params, content),
                                !.calls = @ + 1]
    /\ UNCHANGED <<applications, categories, web_content, session, result, first_versions, rec, vt>>

NextVersions == UpdateVersionDetected

SpecVersions == InitVersions /\ [][NextVersions]_vars

-----------------------------------------------------------------------------
(* Properties of the detection sessions (Spec) *)

\* the names an engine call that returned reports
Reported == IF result.call = "detect" THEN result.value ELSE DOMAIN result.value

CallReturned == result.call # "none" /\ result.raised = ""

\* an application as the database loaded it, without versions
Fresh(application) == [f \in DOMAIN application \ {"versions"} |-> application[f]]

VersionSet(application) ==
    IF HasVersions(application)
    THEN {application["versions"][k] : k \in 1..Len(application["versions"])}
    ELSE {}

ImpliedBySome(n) ==
    \E m \in DOMAIN applications : \E k \in 1..Len(applications[m]["implies"]) :
        applications[m]["implies"][k].application_pattern = n

DetectionFields == {"url", "html", "script", "cookies", "headers", "meta"}

RulesIn(application, f) == application[f] # << >>

\* some html Pattern's regex matches somewhere in the whole body
WholeBodyMatch(application) ==
    \E k \in 1..Len(application["html"]) :
        re_search(application["html"][k].regex, web_content.html)

\* C1: the html check matches every html Pattern against the full body as
\* one string: an application whose only rules are html Patterns, and which
\* no application implies, is detected exactly when some Pattern's regex
\* matches somewhere in the whole body.
C1_HtmlMatchesWholeBody ==
    (result.call = "detect" /\ result.raised = "") =>
        \A n \in DOMAIN applications :
            (/\ \A f \in DetectionFields \ {"html"} : ~RulesIn(applications[n], f)
             /\ ~ImpliedBySome(n))
            => (n \in result.value <=> WholeBodyMatch(applications[n]))

\* one field's check on the current page, as is_application_detected calls it
FieldCheck(application, f) ==
    IF f = "url" THEN is_application_detected_normalize_string(application, f, web_content.url)
    ELSE IF f = "html" THEN is_application_detected_normalize_list(application, f, Chars(web_content.html))
    ELSE IF f = "script" THEN is_application_detected_normalize_list(application, f, web_content.scripts)
    ELSE IF f = "cookies" THEN is_application_detected_normalize_dict(application, f, web_content.cookies)
    ELSE IF f = "headers" THEN is_application_detected_normalize_dict(application, f, web_content.headers)
    ELSE is_application_detected_normalize_dict(application, f, web_content.meta_data)

\* C2: all six field checks run whatever an earlier check found: after a
\* call that returned, the versions every matching field's check resolves on
\* the current page are all among the application's versions.
C2_EveryFieldContributes ==
    CallReturned =>
        \A n \in DOMAIN applications : \A f \in DetectionFields :
            FieldCheck(Fresh(applications[n]), f).is_detected =>
                VersionSet(FieldCheck(Fresh(applications[n]), f).application)
                    \subseteq VersionSet(applications[n])

SnapshotMapping(f) ==
    IF f = "cookies" THEN web_content.cookies
    ELSE IF f = "headers" THEN web_content.headers
    ELSE web_content.meta_data

\* C3: a cookies, headers or meta rule whose pattern string is empty (the
\* database then holds the key as its pattern) detects the application
\* whenever the key is present in the page's mapping, whatever its value.
C3_EmptyPatternDetectsKey ==
    CallReturned =>
        \A n \in DOMAIN applications : \A f \in {"cookies", "headers", "meta"} :
            \A k \in 1..Len(applications[n][f]) :
                (/\ applications[n][f][k][2].application_pattern = applications[n][f][k][1]
                 /\ applications[n][f][k][1] \in DOMAIN SnapshotMapping(f))
                => n \in Reported

\* the category names get_categories is meant to give: "" for an id without an entry
CategoryNames(application) ==
    [k \in 1..Len(application["cats"]) |->
        IF Str(application["cats"][k]) \in DOMAIN categories
        THEN categories[Str(application["cats"][k])].name
        ELSE << >>]

\* C5: detect_with_versions_and_categories does not raise for a category id
\* without an entry in the category table: the id yields the empty name, an
\* id with an entry yields the entry's name.
C5_MissingCategoryIsEmptyName ==
    (result.call = "categories" /\ result.raised # "KeyError") =>
        /\ result.raised = ""
        /\ \A n \in DOMAIN result.value :
               result.value[n].categories = CategoryNames(applications[n])

IsPrefix(s, t) == Len(s) <= Len(t) /\ \A i \in 1..Len(s) : s[i] = t[i]

\* C10: no operation removes or resets an entry of an application's
\* versions: what earlier sessions recorded is still there, in place, in the
\* database and in what detect_with_versions reports in a later session.
C10_VersionsOutliveSession ==
    /\ \A n \in DOMAIN applications :
           IsPrefix(first_versions[n], VersionsOf(applications)[n])
    /\ (result.call = "versions" /\ result.raised = "") =>
           \A n \in DOMAIN result.value :
               IsPrefix(first_versions[n], result.value[n].versions)

\* what one detection of the current page alone records for application n
PageVersions(n) ==
    VersionSet(DetectEach([m \in DOMAIN applications |-> Fresh(applications[m])], web_content)[n].application)

\* a second session reports a version of the first that its own page does not produce
C10_Witness ==
    /\ session = 2
    /\ result.call = "versions"
    /\ result.raised = ""
    /\ \E n \in DOMAIN result.value : \E k \in 1..Len(result.value[n].versions) :
           /\ k <= Len(first_versions[n])
           /\ result.value[n].versions[k] \notin PageVersions(n)

-----------------------------------------------------------------------------
(* Properties of the implication resolver (SpecImplied) *)

\* a implies b
Implies(a, b) ==
    \E k \in 1..Len(applications[a]["implies"]) :
        applications[a]["implies"][k].application_pattern = b

ImpliedNames(a) ==
    {applications[a]["implies"][k].application_pattern : k \in 1..Len(applications[a]["implies"])}

\* every name of the database: its applications and what they imply
MentionedNames == DOMAIN applications \cup UNION {ImpliedNames(a) : a \in DOMAIN applications}

\* every implied name is a present application
ClosedDatabase == MentionedNames = DOMAIN applications

\* a path of k `implies` edges from a member of D to t
PathTo(D, t, k) ==
    \E path \in [1..k + 1 -> DOMAIN applications] :
        /\ path[1] \in D
        /\ path[k + 1] = t
        /\ \A i \in 1..k : Implies(path[i], path[i + 1])

\* the names reachable from D by one or more `implies` edges
ReachableFrom(D) ==
    {t \in DOMAIN applications :
        \E k \in 1..Cardinality(DOMAIN applications) : PathTo(D, t, k)}

RecOver == rec.pc \in {"returned", "detected", "raised"}

\* the names absent from the database that a member of D implies
AbsentImplied(D) == UNION {ImpliedNames(a) : a \in D \cap DOMAIN applications} \ DOMAIN applications

\* C4: when a detected application implies a name absent from the database,
\* get_rec_implied_applications completes without raising and carries the
\* absent name into its result, and so into detect's.
C4_AbsentImpliedIsCarried ==
    (rec.pc # "idle" /\ rec.detected_applications \subseteq DOMAIN applications) =>
        /\ rec.pc # "raised"
        /\ rec.pc \in {"returned", "detected"} =>
               AbsentImplied(rec.detected_applications) \subseteq rec.returned
        /\ rec.pc = "detected" =>
               AbsentImplied(rec.detected_applications) \subseteq rec.detect_result

\* C6: in a database whose implied names are all present, for an input set
\* D of present applications, get_rec_implied_applications returns exactly
\* the names reachable from D by one or more `implies` edges, and detect
\* returns D united with them.
C6_ReturnsReachable ==
    (rec.pc # "idle" /\ ClosedDatabase /\ rec.detected_applications \subseteq DOMAIN applications) =>
        /\ rec.pc # "raised"
        /\ rec.pc \in {"returned", "detected"} =>
               rec.returned = ReachableFrom(rec.detected_applications)
        /\ rec.pc = "detected" =>
               rec.detect_result =
                   rec.detected_applications \cup ReachableFrom(rec.detected_applications)

\* A implies B, B implies C, input {A}: the result is {B, C}
C6_Witness ==
    /\ rec.pc = "detected"
    /\ ClosedDatabase
    /\ rec.detected_applications = {NameA}
    /\ ImpliedNames(NameA) = {NameB}
    /\ ImpliedNames(NameB) = {NameC}
    /\ ImpliedNames(NameC) = {}
    /\ rec.returned = {NameB, NameC}
    /\ rec.detect_result = {NameA, NameB, NameC}

\* a loop round ran: its test held and its body is done
RoundRan == rec.pc = "while" /\ rec'.rounds = rec.rounds + 1

\* C7: get_rec_implied_applications terminates, cycles included: every loop
\* round that runs adds at least one new name to the accumulated set, which
\* holds only names of the database, and the call ends.
C7_Terminates ==
    /\ [][RoundRan =>
            /\ rec.st.final_implied_applications \subseteq rec'.st.final_implied_applications
            /\ rec.st.final_implied_applications # rec'.st.final_implied_applications
            /\ rec'.st.final_implied_applications \subseteq MentionedNames
            /\ rec'.rounds <= Cardinality(rec'.st.final_implied_applications)]_vars
    /\ <>RecOver

\* A implies B and B implies A: the call on {A} returned {A, B} after two rounds
C7_Witness ==
    /\ rec.pc = "returned"
    /\ rec.detected_applications = {NameA}
    /\ Implies(NameA, NameB)
    /\ Implies(NameB, NameA)
    /\ rec.rounds = 2
    /\ rec.returned = {NameA, NameB}

-----------------------------------------------------------------------------
(* Properties of the version template interpreter (SpecTemplate) *)

\* every back reference \n of s replaced by match, token by token
RECURSIVE Substituted(_, _, _)
Substituted(s, n, match) ==
    IF s = << >> THEN << >>
    ELSE (IF <<Head(s)>> = BackRef(n) THEN match ELSE <<Head(s)>>) \o Substituted(Tail(s), n, match)

\* s[p..] reads \n ? TRUE_TEXT : FALSE_TEXT with its colon at c: TRUE_TEXT is
\* not empty and holds no colon
IsTernaryAt(s, n, p, c) ==
    /\ 1 <= p /\ c <= Len(s) /\ p + 3 <= c
    /\ <<s[p]>> = BackRef(n)
    /\ s[p + 1] = "?"
    /\ s[c] = ":"
    /\ \A j \in (p + 2)..(c - 1) : s[j] # ":"

HasTernary(s, n) == \E p \in 1..Len(s), c \in 1..Len(s) : IsTernaryAt(s, n, p, c)

\* s with its first ternary of index n replaced by the branch group n selects
TernaryResolved(s, n, match) ==
    IF HasTernary(s, n)
    THEN LET p == CHOOSE q \in 1..Len(s) :
                     /\ \E c \in 1..Len(s) : IsTernaryAt(s, n, q, c)
                     /\ \A r \in 1..(q - 1) : \A c \in 1..Len(s) : ~IsTernaryAt(s, n, r, c)
             c == CHOOSE d \in 1..Len(s) : IsTernaryAt(s, n, p, d)
         IN  SubSeq(s, 1, p - 1) \o
             (IF match # << >> THEN SubSeq(s, p + 2, c - 1) ELSE SubSeq(s, c + 1, Len(s)))
    ELSE s

P == <<"P">>
F == <<"F">>

\* C8: for each group index N, low to high, a ternary \N?TRUE_TEXT:FALSE_TEXT
\* of the template is replaced by TRUE_TEXT when group N is not empty and by
\* FALSE_TEXT when it is, and only then are the remaining \N replaced by
\* group N; so \1?P:F resolves to P or F, and \1?\1:\2 to group 1 or group 2.
C8_TernaryThenBackReference ==
    /\ vt.pc # "idle" /\ vt.n > 1 =>
           vt.version_pattern =
               Substituted(TernaryResolved(vt.before, vt.n - 1, vt.groups[vt.n - 1]),
                           vt.n - 1, vt.groups[vt.n - 1])
    /\ vt.pc = "done" /\ vt.template = <<"\\1", "?", "P", ":", "F">> =>
           vt.version_pattern = IF vt.groups[1] # << >> THEN P ELSE F
    /\ vt.pc = "done" /\ vt.template = <<"\\1", "?", "\\1", ":", "\\2">> /\ Len(vt.groups) = 2 =>
           vt.version_pattern = IF vt.groups[1] # << >> THEN vt.groups[1] ELSE vt.groups[2]

\* \1?\1:\2 with an empty group 1 resolved to group 2
C8_Witness ==
    /\ vt.pc = "done"
    /\ vt.template = <<"\\1", "?", "\\1", ":", "\\2">>
    /\ vt.groups = << << >>, <<"8">> >>
    /\ vt.version_pattern = <<"8">>

-----------------------------------------------------------------------------
(* Properties of the accumulated versions (SpecVersions) *)

NotEmpty(s) == s # << >>

\* s without the later repetitions of its entries
RECURSIVE FirstSeen(_)
FirstSeen(s) ==
    IF s = << >> THEN << >>
    ELSE LET init == FirstSeen(SubSeq(s, 1, Len(s) - 1))
             last == s[Len(s)]
         IN  IF \E k \in 1..Len(init) : init[k] = last THEN init ELSE Append(init, last)

\* C9: after any sequence of update_version_detected calls, versions is
\* absent until a non-empty version is resolved, and then holds the
\* non-empty resolved versions in the order each was first resolved, each
\* once.
C9_VersionsAreFirstSeen ==
    acc.pc # "idle" =>
        /\ HasVersions(acc.application) <=> SelectSeq(acc.log, NotEmpty) # << >>
        /\ HasVersions(acc.application) =>
               /\ acc.application["versions"] = FirstSeen(SelectSeq(acc.log, NotEmpty))
               /\ \A i \in 1..Len(acc.application["versions"]) :
                      /\ acc.application["versions"][i] # << >>
                      /\ \A j \in 1..Len(acc.application["versions"]) :
                             acc.application["versions"][i] = acc.application["versions"][j] => i = j

\* two versions recorded in order while an empty and a repeated one were resolved
C9_Witness ==
    /\ acc.pc = "run"
    /\ HasVersions(acc.application)
    /\ Len(acc.application["versions"]) = 2
    /\ \E k \in 1..Len(acc.log) : acc.log[k] = << >>
    /\ Len(SelectSeq(acc.log, NotEmpty)) > 2

====
